---- MODULE Spec2Model ----
(***************************************************************************)
(* A model of rustme (src/src/rustme.rs): glossary terms, the snippet      *)
(* store, the reference resolver, the code-block rewriter, the resource    *)
(* cache and the generation driver.                                        *)
(*                                                                         *)
(* Text is a sequence of one-character strings: "a $$ b" is                *)
(* <<"a"," ","$","$"," ","b">>.  Only ASCII characters are modelled, so a  *)
(* byte and a character coincide.  An Option<T> is a sequence of length at *)
(* most one: None is <<>> and Some(v) is <<v>>.                            *)
(***************************************************************************)
EXTENDS Integers, Sequences, FiniteSets, TLC

VARIABLES
    op,        \* the operation that produced this state
    args,      \* the inputs of that operation
    result,    \* what it returned
    glossary,  \* combined: HashMap<String, Term>
    snippets,  \* the Snippet Store: HashMap<String, String>
    cache,     \* Cache: HashMap<CacheKey, String>
    reads,     \* how often each path was read from disk
    disk,      \* the file system: the entry of each path that exists
    net,       \* the network: the response body of each URL that exists
    config,    \* the Configuration being generated
    pc,        \* the position of generate_with_cache
    todo,      \* the output files generate_with_cache has not visited yet
    cur        \* the output file and section it is working on

vars ==
    <<op, args, result, glossary, snippets, cache, reads, disk, net, config, pc, todo, cur>>

----------------------------------------------------------------------------
(* Option<T> *)

None == <<>>

Some(v) == <<v>>

IsSome(o) == o # <<>>

Unwrap(o) == o[1]

\* Option::or_else
OrElse(o, other) == IF IsSome(o) THEN o ELSE other

\* Option<String>::unwrap_or_default
UnwrapOrDefault(o) == IF IsSome(o) THEN o[1] ELSE <<>>

----------------------------------------------------------------------------
(* Maps (HashMap): a function whose DOMAIN is the set of keys present. *)

EmptyMap == <<>>

Insert(m, k, v) == [x \in DOMAIN m \cup {k} |-> IF x = k THEN v ELSE m[x]]

Get(m, k) == IF k \in DOMAIN m THEN Some(m[k]) ELSE None

----------------------------------------------------------------------------
(* Results and errors *)

Ok(v) == [ok |-> TRUE, value |-> v]

Err(kind, detail) == [ok |-> FALSE, kind |-> kind, detail |-> detail]

\* A panic of the Rust runtime: the call does not return.
Panic == [ok |-> FALSE, kind |-> "panic", detail |-> <<>>]

----------------------------------------------------------------------------
(* Term *)

Static(value) == [tag |-> "Static", value |-> value]

Conditional(for_docs, release, default) ==
    [tag |-> "Conditional", for_docs |-> for_docs, release |-> release, default |-> default]

Context(for_docs, release) == [for_docs |-> for_docs, release |-> release]

update_with_drops_existing(self, other) == other

\* Term::update_with: the new value of self
update_with(self, other) ==
    IF other.tag = "Static"
    THEN Static(other.value)
    ELSE IF self.tag = "Static"
         THEN Conditional(other.for_docs, other.release,
                          OrElse(other.default, Some(self.value)))
         ELSE Conditional(OrElse(other.for_docs, self.for_docs),
                          OrElse(other.release, self.release),
                          OrElse(other.default, self.default))

\* merge_term: the new value of combined
merge_term(combined, key, term) ==
    IF key \in DOMAIN combined
    THEN Insert(combined, key, update_with(combined[key], term))
    ELSE Insert(combined, key, term)

to_string_by_context_only(term, context) ==
    IF term.tag = "Static"
    THEN term.value
    ELSE IF context.for_docs
         THEN UnwrapOrDefault(term.for_docs)
         ELSE IF context.release
              THEN UnwrapOrDefault(term.release)
              ELSE UnwrapOrDefault(term.default)

\* Term::to_string
to_string(term, context) ==
    IF term.tag = "Static"
    THEN term.value
    ELSE IF context.for_docs /\ IsSome(term.for_docs)
         THEN Unwrap(term.for_docs)
         ELSE IF context.release /\ IsSome(term.release)
              THEN Unwrap(term.release)
              ELSE UnwrapOrDefault(term.default)

----------------------------------------------------------------------------
(* The glossary machine: merge_term builds the combined glossary, and      *)
(* Term::to_string renders one of its terms in an output context.          *)

TermKeys == {<<"k">>, <<"j">>}

StaticValues == {<<"A">>, <<"B">>}

ForDocsValues == {None, Some(<<"D">>)}

ReleaseValues == {None, Some(<<"R">>), Some(<<"B">>)}

DefaultValues == {None, Some(<<"X">>), Some(<<>>)}

Terms ==
    {Static(v) : v \in StaticValues}
        \cup {Conditional(d, r, x) : d \in ForDocsValues, r \in ReleaseValues, x \in DefaultValues}

Contexts == {Context(d, r) : d \in BOOLEAN, r \in BOOLEAN}

InitTerm ==
    /\ op = "init"
    /\ args = <<>>
    /\ result = <<>>
    /\ glossary = EmptyMap
    /\ snippets = EmptyMap
    /\ cache = EmptyMap
    /\ reads = EmptyMap
    /\ disk = EmptyMap
    /\ net = EmptyMap
    /\ config = <<>>
    /\ pc = "idle"
    /\ todo = {}
    /\ cur = <<>>

MergeTermCall ==
    \E key \in TermKeys, term \in Terms :
        /\ op' = "merge_term"
        /\ args' = [key |-> key, term |-> term, existing |-> Get(glossary, key)]
        /\ glossary' = merge_term(glossary, key, term)
        /\ result' = <<>>
        /\ UNCHANGED <<snippets, cache, reads, disk, net, config, pc, todo, cur>>

ToStringCall ==
    \E key \in DOMAIN glossary, context \in Contexts :
        /\ op' = "to_string"
        /\ args' = [term |-> glossary[key], context |-> context]
        /\ result' = to_string(glossary[key], context)
        /\ UNCHANGED <<glossary, snippets, cache, reads, disk, net, config, pc, todo, cur>>

NextTerm == MergeTermCall \/ ToStringCall

SpecTerm == InitTerm /\ [][NextTerm]_vars

\* C7: merging an incoming term onto the term a key already has: an incoming
\* Static replaces it; an incoming Conditional onto a Static keeps the incoming
\* for_docs and release and takes default from the incoming term if present,
\* else the static value; Conditional onto Conditional takes each field from the
\* incoming term if present, else from the existing one; a key without a term
\* gets the incoming term as it is; no other key changes.  Static("A") then
\* Conditional{release: "B"} gives Conditional{default: "A", release: "B"}.
C7_MergeTerm ==
    op = "merge_term" =>
        LET new == glossary[args.key]
            inc == args.term
        IN  /\ args.key \in DOMAIN glossary
            /\ args.existing = None => new = inc
            /\ (IsSome(args.existing) /\ inc.tag = "Static") => new = inc
            /\ (IsSome(args.existing) /\ inc.tag = "Conditional") =>
                   LET old == Unwrap(args.existing)
                   IN  /\ new.tag = "Conditional"
                       /\ old.tag = "Static" =>
                              /\ new.for_docs = inc.for_docs
                              /\ new.release = inc.release
                              /\ new.default = IF inc.default # None THEN inc.default
                                               ELSE Some(old.value)
                       /\ old.tag = "Conditional" =>
                              /\ new.for_docs = IF inc.for_docs # None THEN inc.for_docs
                                                ELSE old.for_docs
                              /\ new.release = IF inc.release # None THEN inc.release
                                               ELSE old.release
                              /\ new.default = IF inc.default # None THEN inc.default
                                               ELSE old.default
            /\ (args.existing = Some(Static(<<"A">>))
                    /\ inc = Conditional(None, Some(<<"B">>), None)) =>
                   new = Conditional(None, Some(<<"B">>), Some(<<"A">>))

C7_OtherKeysKept ==
    [][op' = "merge_term" =>
          \A k \in TermKeys \ {args'.key} :
              /\ (k \in DOMAIN glossary') = (k \in DOMAIN glossary)
              /\ k \in DOMAIN glossary => glossary'[k] = glossary[k]]_vars

\* Static("A"), then Conditional{release: "B"} merged onto it.
C7_Witness ==
    /\ op = "merge_term"
    /\ args.existing = Some(Static(<<"A">>))
    /\ args.term = Conditional(None, Some(<<"B">>), None)
    /\ glossary[args.key] = Conditional(None, Some(<<"B">>), Some(<<"A">>))

\* C8 as stated: a Static term renders its string; a Conditional term renders
\* its for_docs value when the documentation context is set, regardless of
\* release, else its release value when the release context is set, else its
\* default; an absent value renders as the empty string.
C8_RenderByContextOnly ==
    op = "to_string" =>
        LET term == args.term
            context == args.context
        IN  /\ term.tag = "Static" => result = term.value
            /\ term.tag = "Conditional" =>
                   result = IF context.for_docs THEN UnwrapOrDefault(term.for_docs)
                            ELSE IF context.release THEN UnwrapOrDefault(term.release)
                            ELSE UnwrapOrDefault(term.default)

\* C8 amended: a Static term renders its string; a Conditional term renders its
\* for_docs value when the documentation context is set and that value is
\* present, else its release value when the release context is set and that
\* value is present, else its default, an absent default as the empty string.
\* Conditional{for_docs: D, release: R, default: X} renders D with for_docs set,
\* R with only release set and X with neither.
C8_Render ==
    op = "to_string" =>
        LET term == args.term
            context == args.context
        IN  /\ term.tag = "Static" => result = term.value
            /\ (term.tag = "Conditional" /\ context.for_docs /\ term.for_docs # None) =>
                   result = term.for_docs[1]
            /\ (term.tag = "Conditional" /\ ~(context.for_docs /\ term.for_docs # None)
                    /\ context.release /\ term.release # None) =>
                   result = term.release[1]
            /\ (term.tag = "Conditional" /\ ~(context.for_docs /\ term.for_docs # None)
                    /\ ~(context.release /\ term.release # None)) =>
                   result = (IF term.default = None THEN <<>> ELSE term.default[1])
            /\ term = Conditional(Some(<<"D">>), Some(<<"R">>), Some(<<"X">>)) =>
                   result = IF context.for_docs THEN <<"D">>
                            ELSE IF context.release THEN <<"R">> ELSE <<"X">>

\* A term without a for_docs value rendered in the documentation context falls
\* back to its default.
C8_Witness ==
    /\ op = "to_string"
    /\ args.term = Conditional(None, None, Some(<<"X">>))
    /\ args.context = Context(TRUE, FALSE)
    /\ result = <<"X">>

----------------------------------------------------------------------------
(* Text helpers *)

\* u8::is_ascii_whitespace
is_ascii_whitespace(c) == c \in {" ", "\t", "\n", "\r", "\f"}

RECURSIVE Concat(_)
\* The texts of a sequence, one after the other.
Concat(texts) == IF texts = <<>> THEN <<>> ELSE Head(texts) \o Concat(Tail(texts))

RECURSIVE join(_, _)
\* [&str]::join
join(texts, sep) ==
    IF texts = <<>> THEN <<>>
    ELSE IF Len(texts) = 1 THEN texts[1]
    ELSE texts[1] \o sep \o join(Tail(texts), sep)

\* &string[from..] for a 0-based byte index from <= len
SliceFrom(text, from) == SubSeq(text, from + 1, Len(text))

\* &string[..to] for a 0-based byte index to <= len
SliceTo(text, to) == SubSeq(text, 1, to)

----------------------------------------------------------------------------
(* remove_shared_prefix *)

RECURSIVE AllOthersShareFirst(_, _)
\* strings[1..].iter().all(..) of remove_shared_prefix, evaluated in order from
\* the i-th string on: "true", "false", or "panic" when strings[0][0..1] is
\* sliced while strings[0] is empty.
AllOthersShareFirst(strings, i) ==
    IF i > Len(strings) THEN "true"
    ELSE IF strings[i] = <<>> THEN "false"
    ELSE IF ~is_ascii_whitespace(strings[i][1]) THEN "false"
    ELSE IF strings[1] = <<>> THEN "panic"
    ELSE IF strings[i][1] # strings[1][1] THEN "false"
    ELSE AllOthersShareFirst(strings, i + 1)

RECURSIVE StripLoop(_)
\* The loop of remove_shared_prefix: Ok(strings) when it breaks, Panic when
\* &string[1..] is taken of an empty string or strings[0][0..1] of an empty one.
StripLoop(strings) ==
    LET all == AllOthersShareFirst(strings, 2)
    IN  IF all = "panic" THEN Panic
        ELSE IF all = "false" THEN Ok(strings)
        ELSE IF \E i \in 1..Len(strings) : strings[i] = <<>> THEN Panic
        ELSE StripLoop([i \in 1..Len(strings) |-> Tail(strings[i])])

remove_shared_prefix_any_character(strings) ==
    LET CommonLen(n) == /\ \A i \in 1..Len(strings) : Len(strings[i]) >= n
                        /\ \A i \in 1..Len(strings) : SliceTo(strings[i], n) = SliceTo(strings[1], n)
        best == CHOOSE n \in 0..Len(strings[1]) :
                    CommonLen(n) /\ \A m \in 0..Len(strings[1]) : CommonLen(m) => m <= n
    IN  IF strings = <<>> THEN Ok(strings)
        ELSE Ok([i \in 1..Len(strings) |-> SliceFrom(strings[i], best)])

\* remove_shared_prefix: Ok(the strings as it leaves them), or Panic
remove_shared_prefix(strings) ==
    IF strings = <<>> \/ strings[1] = <<>> THEN Ok(strings) ELSE StripLoop(strings)

----------------------------------------------------------------------------
(* Shared-prefix stripping on its own: remove_shared_prefix applied to     *)
(* lists of region lines.                                                  *)

MaxLineLen == 2

MaxLines == 2

LineChars == {" ", "\t", "a"}

\* All texts of at most n characters of chars.
TextsUpTo(chars, n) == UNION {[1..k -> chars] : k \in 0..n}

\* All lists of at most n of the given items.
ListsUpTo(items, n) == UNION {[1..k -> items] : k \in 0..n}

FooBarHash == << <<"#", " ", "f", "o", "o">>, <<"#", " ", "b", "a", "r">> >>

FooBarIndented == << <<" ", " ", "f", "o", "o">>, <<" ", " ", "b", "a", "r">> >>

\* The lines of the region of src/examples/basic/main.rs, shortened.
ExampleRegion ==
    << <<" ", " ", "l", "e", "t">>, <<" ", " ", "c", "o", "n">>, <<" ", " ", " ", "x">> >>

RegionLines ==
    ListsUpTo(TextsUpTo(LineChars, MaxLineLen), MaxLines)
        \cup {FooBarHash, FooBarIndented, ExampleRegion,
              << <<"#", " ", "f", "o", "o">>, <<"b", "a", "r">> >>}

InitPrefix == InitTerm

\* One call of remove_shared_prefix.
RemoveSharedPrefixCall ==
    /\ pc = "idle"
    /\ \E strings \in RegionLines :
        /\ op' = "remove_shared_prefix"
        /\ args' = [strings |-> strings]
        /\ result' = remove_shared_prefix(strings)
        /\ pc' = "returned"
        /\ UNCHANGED <<glossary, snippets, cache, reads, disk, net, config, todo, cur>>

NextPrefix == RemoveSharedPrefixCall

SpecPrefix == InitPrefix /\ [][NextPrefix]_vars

\* The length of the longest prefix that all strings share and that consists
\* of ASCII whitespace only.
SharedWhitespaceLen(strings) ==
    LET Shared(n) ==
            \A i \in 1..Len(strings) :
                /\ Len(strings[i]) >= n
                /\ \A j \in 1..n : /\ is_ascii_whitespace(strings[i][j])
                                   /\ strings[i][j] = strings[1][j]
    IN  IF strings = <<>> THEN 0
        ELSE CHOOSE n \in 0..Len(strings[1]) :
                 Shared(n) /\ \A m \in 0..Len(strings[1]) : Shared(m) => m <= n

WithoutSharedWhitespace(strings) ==
    [i \in 1..Len(strings) |-> SliceFrom(strings[i], SharedWhitespaceLen(strings))]

\* C9: for every list of region lines, a single line and a first line of only
\* whitespace included, remove_shared_prefix completes and leaves each line
\* without the longest prefix that all lines share and that is ASCII whitespace.
C9_StripsSharedWhitespace ==
    op = "remove_shared_prefix" =>
        /\ result.ok
        /\ result.value = WithoutSharedWhitespace(args.strings)

\* Whenever remove_shared_prefix returns, it has removed exactly the longest
\* shared whitespace prefix.
PrefixStrippedWhenItReturns ==
    (op = "remove_shared_prefix" /\ result.ok) =>
        result.value = WithoutSharedWhitespace(args.strings)

\* remove_shared_prefix returns for two or more lines unless the first line is
\* whitespace that every other line continues; it never returns for a single
\* non-empty line.
PanicsExactly ==
    op = "remove_shared_prefix" =>
        LET strings == args.strings
            rest == WithoutSharedWhitespace(strings)
        IN  (result = Panic) <=>
                /\ strings # <<>>
                /\ strings[1] # <<>>
                /\ \/ Len(strings) = 1
                   \/ /\ rest[1] = <<>>
                      /\ rest[2] # <<>>
                      /\ is_ascii_whitespace(rest[2][1])

\* C10 as stated: stripping ["# foo", "# bar"] yields ["foo", "bar"].
C10_HashPrefixStripped ==
    (op = "remove_shared_prefix" /\ args.strings = FooBarHash) =>
        result = Ok(<< <<"f", "o", "o">>, <<"b", "a", "r">> >>)

\* C10 amended: stripping ["# foo", "# bar"] leaves both lines unchanged, because
\* '#' is not ASCII whitespace; a shared leading whitespace column is stripped:
\* ["  foo", "  bar"] yields ["foo", "bar"].
C10_OnlyWhitespaceStripped ==
    op = "remove_shared_prefix" =>
        /\ args.strings = FooBarHash => result = Ok(FooBarHash)
        /\ args.strings = FooBarIndented =>
               result = Ok(<< <<"f", "o", "o">>, <<"b", "a", "r">> >>)

C10_Witness ==
    /\ op = "remove_shared_prefix"
    /\ args.strings = FooBarHash
    /\ result = Ok(FooBarHash)

----------------------------------------------------------------------------
(* str helpers used by load_snippets *)

\* str::starts_with / <[u8]>::starts_with
starts_with(text, prefix) ==
    Len(text) >= Len(prefix) /\ SubSeq(text, 1, Len(prefix)) = prefix

\* str::find: Some(the 0-based index of the first occurrence), or None
find(text, pattern) ==
    LET hits == {i \in 0..Len(text) : starts_with(SliceFrom(text, i), pattern)}
    IN  IF hits = {} THEN None ELSE Some(CHOOSE i \in hits : \A j \in hits : i <= j)

\* str::contains
contains(text, pattern) == IsSome(find(text, pattern))

\* char::is_whitespace, on the ASCII characters
is_whitespace(c) == is_ascii_whitespace(c)

RECURSIVE trim_start(_)
\* str::trim_start
trim_start(text) ==
    IF text # <<>> /\ is_whitespace(Head(text)) THEN trim_start(Tail(text)) ELSE text

RECURSIVE trim_end(_)
\* str::trim_end
trim_end(text) ==
    IF text # <<>> /\ is_whitespace(text[Len(text)])
    THEN trim_end(SubSeq(text, 1, Len(text) - 1))
    ELSE text

\* str::trim
trim(text) == trim_end(trim_start(text))

\* text.split(sep).next().unwrap(): the part before the first sep
SplitFirst(text, sep) ==
    LET at == find(text, <<sep>>)
    IN  IF IsSome(at) THEN SliceTo(text, Unwrap(at)) ELSE text

RECURSIVE lines(_)
\* str::lines: the lines without their "\n" or "\r\n" terminators; a final
\* terminator opens no further line.
lines(text) ==
    IF text = <<>> THEN <<>>
    ELSE LET at == find(text, <<"\n">>)
             raw == IF IsSome(at) THEN SliceTo(text, Unwrap(at)) ELSE text
             rest == IF IsSome(at) THEN SliceFrom(text, Unwrap(at) + 1) ELSE <<>>
             line == IF IsSome(at) /\ raw # <<>> /\ raw[Len(raw)] = "\r"
                     THEN SubSeq(raw, 1, Len(raw) - 1)
                     ELSE raw
         IN  <<line>> \o lines(rest)

----------------------------------------------------------------------------
(* The file system.  A path is a text; disk maps the paths that exist to   *)
(* File(contents), or to Unreadable for an entry that read_to_string fails *)
(* on with an error other than NotFound (a directory, say).                *)

File(contents) == [kind |-> "file", contents |-> contents]

Unreadable == [kind |-> "unreadable"]

\* std::fs::read_to_string
read_to_string(fs, path) ==
    IF path \notin DOMAIN fs THEN Err("NotFound", path)
    ELSE IF fs[path].kind = "unreadable" THEN Err("Io", path)
    ELSE Ok(fs[path].contents)

----------------------------------------------------------------------------
(* The Snippet Store.  The operators thread st = [snippets, read]: the     *)
(* store, and the paths read from disk so far, in order.                   *)

SNIPPET_START ==
    <<"b", "e", "g", "i", "n", " ", "r", "u", "s", "t", "m", "e", " ",
      "s", "n", "i", "p", "p", "e", "t", ":">>

SNIPPET_END ==
    <<"e", "n", "d", " ", "r", "u", "s", "t", "m", "e", " ",
      "s", "n", "i", "p", "p", "e", "t">>

\* The name a begin marker line gives its region.
RegionName(line, phrase_start) ==
    SplitFirst(trim(SliceFrom(line, phrase_start + Len(SNIPPET_START))), " ")

RECURSIVE ScanLines(_, _, _, _, _, _)

\* The end marker branch of load_snippets for an open region: the region's
\* lines, stripped, are stored under key, and the scan goes on from line i + 1
\* unless the key was already there or the stripping panicked.
CloseRegion(ref_path, all_lines, i, name, key, stripped, store) ==
    IF ~stripped.ok
    THEN [result |-> Panic, snippets |-> store]
    ELSE IF key \in DOMAIN store
    THEN [result |-> Err("SnippetAlreadyDefined", name),
          snippets |-> Insert(store, key, join(stripped.value, <<"\n">>))]
    ELSE ScanLines(ref_path, all_lines, i + 1, stripped.value, None,
                   Insert(store, key, join(stripped.value, <<"\n">>)))

ScanLineKeepsCollected(ref_path, all_lines, i, line, phrase_start, current_snippet, current_snippet_name, store) ==
    IF IsSome(phrase_start)
    THEN ScanLines(ref_path, all_lines, i + 1, current_snippet,
                   Some(RegionName(line, Unwrap(phrase_start))), store)
    ELSE IF contains(line, SNIPPET_END)
    THEN IF IsSome(current_snippet_name)
         THEN CloseRegion(ref_path, all_lines, i, Unwrap(current_snippet_name),
                          ref_path \o <<":">> \o Unwrap(current_snippet_name),
                          remove_shared_prefix(current_snippet), store)
         ELSE [result |-> Err("MalformedSnippet", <<>>), snippets |-> store]
    ELSE IF IsSome(current_snippet_name)
    THEN ScanLines(ref_path, all_lines, i + 1, Append(current_snippet, line),
                   current_snippet_name, store)
    ELSE ScanLines(ref_path, all_lines, i + 1, current_snippet, current_snippet_name, store)

\* The loop body of load_snippets for one line; phrase_start is where the line
\* holds SNIPPET_START, if it does.
ScanLine(ref_path, all_lines, i, line, phrase_start, current_snippet, current_snippet_name, store) ==
    IF IsSome(phrase_start)
    THEN ScanLines(ref_path, all_lines, i + 1, <<>>,
                   Some(RegionName(line, Unwrap(phrase_start))), store)
    ELSE IF contains(line, SNIPPET_END)
    THEN IF IsSome(current_snippet_name)
         THEN CloseRegion(ref_path, all_lines, i, Unwrap(current_snippet_name),
                          ref_path \o <<":">> \o Unwrap(current_snippet_name),
                          remove_shared_prefix(current_snippet), store)
         ELSE [result |-> Err("MalformedSnippet", <<>>), snippets |-> store]
    ELSE IF IsSome(current_snippet_name)
    THEN ScanLines(ref_path, all_lines, i + 1, Append(current_snippet, line),
                   current_snippet_name, store)
    ELSE ScanLines(ref_path, all_lines, i + 1, current_snippet, current_snippet_name, store)

\* The loop of load_snippets over the lines from the i-th on, with the
\* collector state current_snippet and current_snippet_name (an Option).
ScanLines(ref_path, all_lines, i, current_snippet, current_snippet_name, store) ==
    IF i > Len(all_lines)
    THEN [result |-> Ok(<<>>), snippets |-> store]
    ELSE ScanLine(ref_path, all_lines, i, all_lines[i], find(all_lines[i], SNIPPET_START),
                  current_snippet, current_snippet_name, store)

\* load_snippets after the scan of the file: the whole file is stored under
\* the bare path.
StoreWholeFile(ref_path, disk_path, contents, scanned, st) ==
    [result |-> scanned.result,
     snippets |-> IF scanned.result.ok
                  THEN Insert(scanned.snippets, ref_path, contents)
                  ELSE scanned.snippets,
     read |-> Append(st.read, disk_path)]

\* load_snippets after the read of the file.
ScanContents(ref_path, disk_path, contents, st) ==
    IF ~contents.ok
    THEN [result |-> IF contents.kind = "NotFound"
                     THEN Err("SnippetNotFound", ref_path)
                     ELSE Err("Io", disk_path),
          snippets |-> st.snippets,
          read |-> st.read]
    ELSE StoreWholeFile(ref_path, disk_path, contents.value,
                        ScanLines(ref_path, lines(contents.value), 1, <<>>, None, st.snippets),
                        st)

\* load_snippets: [result, snippets, read]
load_snippets(ref_path, disk_path, fs, st) ==
    ScanContents(ref_path, disk_path, read_to_string(fs, disk_path), st)

\* Path::join of base_dir and a relative path: paths are kept relative to the
\* configuration's directory.
JoinBase(path) == path

\* load_snippet after the file of the reference was loaded, if it had to be.
LookUp(snippet_ref, loaded) ==
    IF ~loaded.result.ok
    THEN loaded
    ELSE [result |-> IF snippet_ref \in DOMAIN loaded.snippets
                     THEN Ok(loaded.snippets[snippet_ref])
                     ELSE Err("SnippetNotFound", snippet_ref),
          snippets |-> loaded.snippets,
          read |-> loaded.read]

\* load_snippet: [result, snippets, read], result Ok(the snippet) or an error
load_snippet(snippet_ref, fs, st) ==
    IF snippet_ref \notin DOMAIN st.snippets
    THEN LookUp(snippet_ref,
                load_snippets(SplitFirst(snippet_ref, ":"),
                              JoinBase(SplitFirst(snippet_ref, ":")), fs, st))
    ELSE LookUp(snippet_ref,
                [result |-> Ok(<<>>), snippets |-> st.snippets, read |-> st.read])

----------------------------------------------------------------------------
(* StrByteIterator: the operators take the remaining bytes and return what *)
(* was read together with the new remaining bytes.                         *)

\* StrByteIterator::try_read: [matched, remaining]
try_read(remaining, compare_against) ==
    IF starts_with(remaining, compare_against)
    THEN [matched |-> TRUE, remaining |-> SliceFrom(remaining, Len(compare_against))]
    ELSE [matched |-> FALSE, remaining |-> remaining]

\* StrByteIterator::read_until: [read, remaining].  The callback is given as
\* the set of bytes it accepts.  Every modelled byte is below 128, so each is
\* offered to the callback and from_utf8 cannot fail.
read_until(remaining, cb, include_last_byte) ==
    LET hits == {i \in 1..Len(remaining) : remaining[i] \in cb}
        index == CHOOSE i \in hits : \A j \in hits : i <= j
    IN  IF hits = {}
        THEN [read |-> remaining, remaining |-> <<>>]
        ELSE IF include_last_byte
        THEN [read |-> SubSeq(remaining, 1, index),
              remaining |-> SubSeq(remaining, index + 1, Len(remaining))]
        ELSE [read |-> SubSeq(remaining, 1, index - 1),
              remaining |-> SubSeq(remaining, index, Len(remaining))]

\* StrByteIterator::read_until_char
read_until_char(remaining, ch) == read_until(remaining, {ch}, FALSE)

\* StrByteIterator::read_line
read_line(remaining) == read_until(remaining, {"\n"}, TRUE)

\* Iterator::next for StrByteIterator: [item, remaining], item an Option
next(remaining) ==
    IF remaining = <<>>
    THEN [item |-> None, remaining |-> remaining]
    ELSE [item |-> Some(Head(remaining)), remaining |-> Tail(remaining)]

----------------------------------------------------------------------------
(* The Reference Resolver *)

ResolveReferenceSnippetFirst(snippet_ref, fs, st, terms, context) ==
    IF snippet_ref = <<>>
    THEN [result |-> Ok(<<"$">>), snippets |-> st.snippets, read |-> st.read]
    ELSE IF load_snippet(snippet_ref, fs, st).result.ok \/ snippet_ref \notin DOMAIN terms
    THEN load_snippet(snippet_ref, fs, st)
    ELSE [result |-> Ok(to_string(terms[snippet_ref], context)),
          snippets |-> st.snippets, read |-> st.read]

\* What replace_references does with one token body: [result, snippets, read],
\* result Ok(the bytes to emit) or an error.
ResolveReference(snippet_ref, fs, st, terms, context) ==
    IF snippet_ref = <<>>
    THEN [result |-> Ok(<<"$">>), snippets |-> st.snippets, read |-> st.read]
    ELSE IF snippet_ref \in DOMAIN terms
    THEN [result |-> Ok(to_string(terms[snippet_ref], context)),
          snippets |-> st.snippets, read |-> st.read]
    ELSE load_snippet(snippet_ref, fs, st)

\* The error replace_references returns when the closing $ is missing.
UnterminatedReferenceError == Err("MalformedCodeBlock", <<>>)

RECURSIVE ReplaceLoop(_, _, _, _, _, _)

\* The loop body of replace_references from the lookup of the token on.
ReplaceResolved(resolved, remaining, emitted, fs, terms, context) ==
    IF ~resolved.result.ok
    THEN resolved
    ELSE ReplaceLoop(remaining, emitted \o resolved.result.value, fs,
                     [snippets |-> resolved.snippets, read |-> resolved.read],
                     terms, context)

\* The loop body of replace_references from the read of the token body on: the
\* trailing $ is skipped, or the token is unterminated.
ReplaceToken(snippet_ref, emitted, fs, st, terms, context) ==
    IF next(snippet_ref.remaining).item = None
    THEN [result |-> UnterminatedReferenceError, snippets |-> st.snippets, read |-> st.read]
    ELSE ReplaceResolved(ResolveReference(snippet_ref.read, fs, st, terms, context),
                         next(snippet_ref.remaining).remaining, emitted, fs, terms, context)

\* The loop body of replace_references from the read of the text before the
\* next $ on: the text is emitted and the $ skipped, or the loop ends.
ReplaceSkipped(skipped, processed, fs, st, terms, context) ==
    IF next(skipped.remaining).item = None
    THEN [result |-> Ok(processed \o skipped.read), snippets |-> st.snippets,
          read |-> st.read]
    ELSE ReplaceToken(read_until_char(next(skipped.remaining).remaining, "$"),
                      processed \o skipped.read, fs, st, terms, context)

\* The loop of replace_references.
ReplaceLoop(remaining, processed, fs, st, terms, context) ==
    ReplaceSkipped(read_until_char(remaining, "$"), processed, fs, st, terms, context)

\* replace_references: [result, snippets, read], result Ok(the text) or an error
replace_references(markdown, fs, st, terms, context) ==
    ReplaceLoop(markdown, <<>>, fs, st, terms, context)

----------------------------------------------------------------------------
(* The Code-Block Rewriter *)

\* The backquote character, which a TLA+ string cannot hold.
Backquote == "BACKQUOTE"

\* The opening fence of a rust block: three backquotes and "rust".
RustFence == <<Backquote, Backquote, Backquote, "r", "u", "s", "t">>

RECURSIVE PreprocessLoop(_, _)
RECURSIVE RustBlockLoop(_, _)

\* What the inner loop of preprocess_rust_codeblocks does with a line it read.
RustBlockLine(line, processed) ==
    IF line.read = <<>>
    THEN Err("MalformedCodeBlock", <<>>)
    ELSE IF starts_with(trim_start(line.read), <<Backquote, Backquote, Backquote>>)
    THEN PreprocessLoop(line.remaining, processed \o line.read)
    ELSE IF starts_with(trim_start(line.read), <<"#", " ">>)
    THEN RustBlockLoop(line.remaining, processed)
    ELSE RustBlockLoop(line.remaining, processed \o line.read)

\* The inner loop of preprocess_rust_codeblocks, over the lines of a rust block.
RustBlockLoop(remaining, processed) == RustBlockLine(read_line(remaining), processed)

\* The start of a rust block: the fence and the rest of its line are kept.
RustBlockOpen(rest_of_line, processed) ==
    RustBlockLoop(rest_of_line.remaining, processed \o RustFence \o rest_of_line.read)

\* The outer loop of preprocess_rust_codeblocks, over the bytes.
PreprocessLoop(remaining, processed) ==
    IF remaining = <<>>
    THEN Ok(processed)
    ELSE IF Head(remaining) = Backquote /\ try_read(Tail(remaining), Tail(RustFence)).matched
    THEN RustBlockOpen(read_line(try_read(Tail(remaining), Tail(RustFence)).remaining),
                       processed)
    ELSE PreprocessLoop(Tail(remaining), Append(processed, Head(remaining)))

\* preprocess_rust_codeblocks: Ok(the text) or an error
preprocess_rust_codeblocks(markdown) == PreprocessLoop(markdown, <<>>)

\* process_markdown after replace_references.
Rewrite(expanded) ==
    IF ~expanded.result.ok
    THEN expanded
    ELSE [result |-> preprocess_rust_codeblocks(expanded.result.value),
          snippets |-> expanded.snippets,
          read |-> expanded.read]

\* process_markdown: [result, snippets, read]
process_markdown(markdown, fs, st, terms, context) ==
    Rewrite(replace_references(markdown, fs, st, terms, context))

----------------------------------------------------------------------------
(* Source files used by the machines below *)

\* A text file of the given lines, each ended by "\n".
FileOfLines(line_list) ==
    File(Concat([i \in 1..Len(line_list) |-> line_list[i] \o <<"\n">>]))

BeginLine(name) == <<"/", "/", " ">> \o SNIPPET_START \o <<" ">> \o name

EndLine == <<"/", "/", " ">> \o SNIPPET_END

PathF == <<"f">>

PathG == <<"g">>

PathH == <<"h">>

PathU == <<"u">>

\* f: two regions, x and z, of two indented lines each.
FileF ==
    FileOfLines(<< BeginLine(<<"x">>), <<" ", " ", "a">>, <<" ", " ", "b">>, EndLine,
                   <<"m">>,
                   BeginLine(<<"z">>), <<" ", "c", "$">>, <<" ", "d">>, EndLine >>)

TextFX == <<"a", "\n", "b">>

TextFZ == <<"c", "$", "\n", "d">>

\* g without markers
FileGPlain == FileOfLines(<< <<"h", "i">> >>)

\* g with two regions named x
FileGDuplicate ==
    FileOfLines(<< BeginLine(<<"x">>), <<"a">>, <<"b">>, EndLine,
                   BeginLine(<<"x">>), <<"c">>, <<"d">>, EndLine >>)

\* g with an end marker and no begin marker
FileGEndOnly == FileOfLines(<< <<"a">>, EndLine >>)

\* g with a region of a single line
FileGSingleLine == FileOfLines(<< BeginLine(<<"x">>), <<" ", "a">>, EndLine >>)

\* g with a begin marker inside an open region
FileGRestart ==
    FileOfLines(<< BeginLine(<<"x">>), <<"a">>, BeginLine(<<"y">>), <<"b">>, <<"c">>,
                   EndLine >>)

\* g with a region that is never closed
FileGUnclosed == FileOfLines(<< BeginLine(<<"x">>), <<"a">>, <<"b">> >>)

FilesG ==
    {FileGPlain, FileGDuplicate, FileGEndOnly, FileGSingleLine, FileGRestart, FileGUnclosed}

\* The disks: f and the unreadable u exist, g is one of FilesG or missing, h is
\* missing.
Disks ==
    {[p \in {PathF, PathU} |-> IF p = PathF THEN FileF ELSE Unreadable]}
        \cup {[p \in {PathF, PathU, PathG} |->
                  IF p = PathF THEN FileF ELSE IF p = PathU THEN Unreadable ELSE g] :
              g \in FilesG}

Ref(path, name) == path \o <<":">> \o name

----------------------------------------------------------------------------
(* The Snippet Store machine: load_snippet calls that share one store.     *)

MaxReads == 2

StoreRefs ==
    {PathF, Ref(PathF, <<"x">>), Ref(PathF, <<"y">>), Ref(PathF, <<"z">>),
     PathG, Ref(PathG, <<"x">>), Ref(PathG, <<"y">>),
     PathH, Ref(PathH, <<"x">>), Ref(PathU, <<"x">>)}

\* How often path occurs in the sequence read.
CountIn(read, path) == Cardinality({i \in 1..Len(read) : read[i] = path})

\* reads, with the paths of the sequence read counted in.
CountReads(counts, read) ==
    [p \in DOMAIN counts \cup {read[i] : i \in 1..Len(read)} |->
        (IF p \in DOMAIN counts THEN counts[p] ELSE 0) + CountIn(read, p)]

InitStore ==
    /\ op = "init"
    /\ args = <<>>
    /\ result = <<>>
    /\ glossary = EmptyMap
    /\ snippets = EmptyMap
    /\ cache = EmptyMap
    /\ reads = EmptyMap
    /\ disk \in Disks
    /\ net = EmptyMap
    /\ config = <<>>
    /\ pc = "idle"
    /\ todo = {}
    /\ cur = <<>>

\* The state after a call of load_snippet that returned out and found the
\* reads counted.
LoadSnippetReturns(snippet_ref, out, counted) ==
    /\ op' = "load_snippet"
    /\ args' = [snippet_ref |-> snippet_ref, snippets |-> snippets]
    /\ result' = out.result
    /\ snippets' = out.snippets
    /\ reads' = counted
    /\ UNCHANGED <<glossary, cache, disk, net, config, todo, cur>>

\* One call of load_snippet on the shared store.  A panic ends the process.
LoadSnippetCall ==
    /\ pc = "idle"
    /\ \E snippet_ref \in StoreRefs :
        \E out \in {load_snippet(snippet_ref, disk, [snippets |-> snippets, read |-> <<>>])} :
            /\ \A p \in DOMAIN CountReads(reads, out.read) :
                   CountReads(reads, out.read)[p] <= MaxReads
            /\ LoadSnippetReturns(snippet_ref, out, CountReads(reads, out.read))
            /\ pc' = IF out.result = Panic THEN "panicked" ELSE "idle"

NextStore == LoadSnippetCall

SpecStore == InitStore /\ [][NextStore]_vars

\* The snippets load_snippets extracts from the file of a reference when it
\* scans it into an empty store.
ExtractedFrom(fs, snippet_ref) ==
    LET path == SplitFirst(snippet_ref, ":")
    IN  load_snippets(path, JoinBase(path), fs, [snippets |-> EmptyMap, read |-> <<>>])

\* The file of the reference is missing, or it is a readable file whose scan
\* ends without an error.
MissingOrWellFormed(fs, snippet_ref) ==
    \/ SplitFirst(snippet_ref, ":") \notin DOMAIN fs
    \/ ExtractedFrom(fs, snippet_ref).result.ok

\* C2: a non-empty reference that names no extracted snippet fails with
\* "snippet not found" carrying the full reference string, in every state of the
\* store: with the source file missing, and with the source file already loaded
\* by an earlier lookup but not defining the name.
C2_NotFoundNamesReference ==
    (/\ op = "load_snippet"
     /\ args.snippet_ref # <<>>
     /\ MissingOrWellFormed(disk, args.snippet_ref)
     /\ args.snippet_ref \notin DOMAIN ExtractedFrom(disk, args.snippet_ref).snippets)
        => result = Err("SnippetNotFound", args.snippet_ref)

\* What load_snippet returns for a reference that names no extracted snippet of
\* a missing or well-formed file: "snippet not found" with the path before the
\* colon when the file is missing, with the full reference when the file has no
\* region and is scanned for the first or a later time, and "snippet already
\* defined" with the name of the file's first region when the file was loaded
\* before.
NotFoundAsTheCodeReportsIt ==
    (/\ op = "load_snippet"
     /\ MissingOrWellFormed(disk, args.snippet_ref)
     /\ args.snippet_ref \notin DOMAIN ExtractedFrom(disk, args.snippet_ref).snippets)
        => LET path == SplitFirst(args.snippet_ref, ":")
               regions == DOMAIN ExtractedFrom(disk, args.snippet_ref).snippets \ {path}
           IN  IF path \notin DOMAIN disk
               THEN result = Err("SnippetNotFound", path)
               ELSE IF path \in DOMAIN args.snippets /\ regions # {}
               THEN ~result.ok /\ result.kind = "SnippetAlreadyDefined"
               ELSE result = Err("SnippetNotFound", args.snippet_ref)

\* How often a path was read from disk so far.
ReadCount(counts, path) == IF path \in DOMAIN counts THEN counts[path] ELSE 0

\* C12: in any sequence of load_snippet calls on one store, a source file that
\* scans without an error is read from disk at most once; the lookups after
\* the one that loaded it, for names the file defines or not, read nothing.
C12_FileReadAtMostOnce ==
    \A path \in DOMAIN reads :
        ExtractedFrom(disk, path).result.ok => reads[path] <= 1

\* A lookup of a key the store holds reads no file.
StoredKeysReadNothing ==
    [][(op' = "load_snippet" /\ args'.snippet_ref \in DOMAIN snippets)
           => reads' = reads]_vars

\* A lookup of a key the store does not hold reads the file of the reference
\* again, however often it was read before.
AbsentKeysReadAgain ==
    [][(/\ op' = "load_snippet"
        /\ args'.snippet_ref \notin DOMAIN snippets
        /\ read_to_string(disk, SplitFirst(args'.snippet_ref, ":")).ok)
           => ReadCount(reads', SplitFirst(args'.snippet_ref, ":"))
                  = ReadCount(reads, SplitFirst(args'.snippet_ref, ":")) + 1]_vars

(* SpecScan: the load_snippet calls of SpecStore on files built from a few *)
(* kinds of line.                                                          *)

MaxFileLines == 4

\* The lines the files are built from: the begin markers of x and y, the end
\* marker, an indented line and a line at the margin.
ScanLineKinds == {BeginLine(<<"x">>), BeginLine(<<"y">>), EndLine, <<" ", "a">>, <<"b">>}

\* The disks: g is a file of at most MaxFileLines lines, or one of FilesG.
ScanDisks ==
    {[p \in {PathG} |-> g] :
        g \in FilesG \cup {FileOfLines(ls) : ls \in ListsUpTo(ScanLineKinds, MaxFileLines)}}

InitScan ==
    /\ op = "init"
    /\ args = <<>>
    /\ result = <<>>
    /\ glossary = EmptyMap
    /\ snippets = EmptyMap
    /\ cache = EmptyMap
    /\ reads = EmptyMap
    /\ disk \in ScanDisks
    /\ net = EmptyMap
    /\ config = <<>>
    /\ pc = "idle"
    /\ todo = {}
    /\ cur = <<>>

SpecScan == InitScan /\ [][NextStore]_vars

(* The regions of a file as C14 describes them. *)

\* A begin marker line.
IsBeginLine(line) == contains(line, SNIPPET_START)

\* An end marker line.
IsEndLine(line) == ~IsBeginLine(line) /\ contains(line, SNIPPET_END)

\* The pairs <<b, e>> of an end marker line e and the most recent begin marker
\* line b before it, with no other marker line between them.
MarkedRegions(all_lines) ==
    {be \in (1..Len(all_lines)) \X (1..Len(all_lines)) :
        /\ be[1] < be[2]
        /\ IsBeginLine(all_lines[be[1]])
        /\ IsEndLine(all_lines[be[2]])
        /\ \A j \in (be[1] + 1)..(be[2] - 1) :
               ~IsBeginLine(all_lines[j]) /\ ~IsEndLine(all_lines[j])}

\* The key of the region that the begin marker line b of the file at path
\* opens.
RegionKey(path, all_lines, b) ==
    Ref(path, RegionName(all_lines[b], Unwrap(find(all_lines[b], SNIPPET_START))))

\* The lines strictly between the marker lines b and e, in file order.
LinesBetween(all_lines, b, e) == SubSeq(all_lines, b + 1, e - 1)

\* The stored text is built from the lines: they are stripped of their shared
\* prefix and joined by newlines.
BuiltFrom(text, region_lines) ==
    /\ remove_shared_prefix(region_lines).ok
    /\ text = join(remove_shared_prefix(region_lines).value, <<"\n">>)

\* C14: the text stored for a named region is built from exactly the lines
\* strictly between an end marker and the most recent begin marker before it,
\* in file order; a name whose region was cut short by another begin marker
\* gets no entry from it; and once a file was scanned to its end, each of its
\* regions has its entry.
C14_RegionText ==
    /\ \A key \in DOMAIN snippets :
           contains(key, <<":">>) =>
               \E be \in MarkedRegions(lines(disk[SplitFirst(key, ":")].contents)) :
                   /\ key = RegionKey(SplitFirst(key, ":"),
                                      lines(disk[SplitFirst(key, ":")].contents), be[1])
                   /\ BuiltFrom(snippets[key],
                                LinesBetween(lines(disk[SplitFirst(key, ":")].contents),
                                             be[1], be[2]))
    /\ \A path \in DOMAIN snippets :
           ~contains(path, <<":">>) =>
               \A be \in MarkedRegions(lines(disk[path].contents)) :
                   RegionKey(path, lines(disk[path].contents), be[1]) \in DOMAIN snippets

\* g, where the begin marker of y stands inside the open region x, was
\* scanned: y holds the two lines after its marker, x has no entry.
C14_Witness ==
    /\ op = "load_snippet"
    /\ PathG \in DOMAIN disk
    /\ disk[PathG] = FileGRestart
    /\ Ref(PathG, <<"y">>) \in DOMAIN snippets
    /\ snippets[Ref(PathG, <<"y">>)] = <<"b", "\n", "c">>
    /\ Ref(PathG, <<"x">>) \notin DOMAIN snippets
    /\ PathG \in DOMAIN snippets

----------------------------------------------------------------------------
(* The Reference Resolver machine: load_snippet calls fill the store, then *)
(* replace_references resolves one section text against it.                *)

MaxPieces == 4

\* The disk of this machine: f, the unreadable u, and g without markers.
RefDisk ==
    [p \in {PathF, PathU, PathG} |->
        IF p = PathF THEN FileF ELSE IF p = PathU THEN Unreadable ELSE FileGPlain]

\* The glossary of this machine.  f:x is a glossary key and a snippet of f; the
\* default of k holds a $.
RefGlossary ==
    [key \in {<<"k">>, Ref(PathF, <<"x">>)} |->
        IF key = <<"k">> THEN Conditional(Some(<<"D">>), None, Some(<<"$", "x">>))
        ELSE Static(<<"S">>)]

RefContexts == {Context(FALSE, FALSE), Context(TRUE, TRUE)}

Pieces ==
    {<<"a">>, <<"$">>, <<"k">>, Ref(PathF, <<"x">>), Ref(PathF, <<"z">>), Ref(PathF, <<"y">>)}

EscapedDollarText == <<"a", " ", "$", "$", " ", "b">>

UnterminatedText == <<"a", " ", "$", "b">>

Markdowns ==
    {Concat(pieces) : pieces \in ListsUpTo(Pieces, MaxPieces)}
        \cup {EscapedDollarText, UnterminatedText,
              <<"$">> \o PathG \o <<"$">>,
              <<"$", "k", "$", "$">> \o Ref(PathF, <<"z">>) \o <<"$">>,
              <<"$">> \o Ref(PathF, <<"z">>) \o <<"$", "a", "$", "k", "$", "b">>,
              <<"$", "k", "$", "$">> \o Ref(PathF, <<"y">>) \o <<"$", "$", "k">>,
              <<"$">> \o Ref(PathH, <<"x">>) \o <<"$">>}

PreloadRefs == {Ref(PathF, <<"z">>), PathG}

InitRefs ==
    /\ op = "init"
    /\ args = <<>>
    /\ result = <<>>
    /\ glossary = RefGlossary
    /\ snippets = EmptyMap
    /\ cache = EmptyMap
    /\ reads = EmptyMap
    /\ disk = RefDisk
    /\ net = EmptyMap
    /\ config = <<>>
    /\ pc = "idle"
    /\ todo = {}
    /\ cur = <<>>

\* An earlier lookup of the run.
PreloadCall ==
    /\ pc = "idle"
    /\ \E snippet_ref \in PreloadRefs \ DOMAIN snippets :
        \E out \in {load_snippet(snippet_ref, disk, [snippets |-> snippets, read |-> <<>>])} :
            /\ LoadSnippetReturns(snippet_ref, out, CountReads(reads, out.read))
            /\ UNCHANGED pc

\* One call of replace_references.
ReplaceReferencesCall ==
    /\ pc = "idle"
    /\ \E markdown \in Markdowns, context \in RefContexts :
        \E out \in {replace_references(markdown, disk, [snippets |-> snippets, read |-> <<>>],
                                       glossary, context)} :
            /\ op' = "replace_references"
            /\ args' = [markdown |-> markdown, context |-> context, snippets |-> snippets]
            /\ result' = out.result
            /\ snippets' = out.snippets
            /\ reads' = CountReads(reads, out.read)
            /\ pc' = "returned"
            /\ UNCHANGED <<glossary, cache, disk, net, config, todo, cur>>

NextRefs == PreloadCall \/ ReplaceReferencesCall

SpecRefs == InitRefs /\ [][NextRefs]_vars

RECURSIVE SplitOn(_, _)
\* The parts of text between the occurrences of the character sep.
SplitOn(text, sep) ==
    LET at == {i \in 1..Len(text) : text[i] = sep}
        first == CHOOSE i \in at : \A j \in at : i <= j
    IN  IF at = {} THEN <<text>>
        ELSE <<SubSeq(text, 1, first - 1)>> \o SplitOn(SubSeq(text, first + 1, Len(text)), sep)

\* Every $ of the text has its partner: the text outside tokens is the odd
\* parts of SplitOn(text, "$") and the token bodies are the even parts.
AllPaired(text) == Len(SplitOn(text, "$")) % 2 = 1

\* The token bodies of a text, closed or not.
Bodies(text) ==
    LET parts == SplitOn(text, "$")
    IN  {parts[i] : i \in {j \in 1..Len(parts) : j % 2 = 0}}

\* The keys under which the files of the disk have snippets.
SnippetKeys(fs) == UNION {DOMAIN ExtractedFrom(fs, path).snippets : path \in DOMAIN fs}

\* C1: for a section text whose $ are all paired, replace_references emits the
\* text outside tokens unchanged and in place of each token: a single $ for an
\* empty body; the glossary term rendered in the current context for a glossary
\* key, even if a snippet has the same key; otherwise the snippet text of the
\* body.  What is substituted is not scanned again.  It succeeds when every body
\* is empty, a glossary key or the key of a snippet.
C1_ReplaceReferences ==
    (op = "replace_references" /\ AllPaired(args.markdown)) =>
        LET parts == SplitOn(args.markdown, "$")
            Substitute(body) ==
                IF body = <<>> THEN <<"$">>
                ELSE IF body \in DOMAIN glossary THEN to_string(glossary[body], args.context)
                ELSE snippets[body]
            expected == Concat([i \in 1..Len(parts) |->
                                   IF i % 2 = 1 THEN parts[i] ELSE Substitute(parts[i])])
        IN  /\ result.ok => result.value = expected
            /\ (\A body \in Bodies(args.markdown) :
                    body = <<>> \/ body \in DOMAIN glossary \/ body \in SnippetKeys(disk))
                   => result.ok
            /\ args.markdown = EscapedDollarText => result = Ok(<<"a", " ", "$", " ", "b">>)
            /\ args.markdown = <<"$">> \o Ref(PathF, <<"z">>) \o <<"$">> => result = Ok(TextFZ)

\* A text with a glossary token and a snippet token has been resolved.
C1_Witness ==
    /\ op = "replace_references"
    /\ args.markdown = <<"$">> \o Ref(PathF, <<"z">>) \o <<"$", "a", "$", "k", "$", "b">>
    /\ args.context = Context(FALSE, FALSE)
    /\ result = Ok(TextFZ \o <<"a", "$", "x", "b">>)

\* The complete tokens of the text resolve without a lookup in the store.
TokensNeedNoSnippet(text) ==
    LET parts == SplitOn(text, "$")
    IN  \A i \in 1..(Len(parts) - 1) :
            i % 2 = 0 => (parts[i] = <<>> \/ parts[i] \in DOMAIN glossary)

\* C3: a section text in which an opening $ has no closing $ fails with the
\* malformed-snippet-token error, which is another kind than the malformed
\* fenced code block error.
C3_UnterminatedIsMalformedReference ==
    (/\ op = "replace_references"
     /\ ~AllPaired(args.markdown)
     /\ TokensNeedNoSnippet(args.markdown))
        => /\ ~result.ok
           /\ result.kind = "MalformedSnippetReference"
           /\ result.kind # "MalformedCodeBlock"

\* What the code returns for such a text: the error of a malformed fenced code
\* block.
UnterminatedAsTheCodeReportsIt ==
    (/\ op = "replace_references"
     /\ ~AllPaired(args.markdown)
     /\ TokensNeedNoSnippet(args.markdown))
        => result = Err("MalformedCodeBlock", <<>>)

----------------------------------------------------------------------------
(* The Resource Cache *)

PathKey(path) == [kind |-> "Path", name |-> path]

UrlKey(url) == [kind |-> "Url", name |-> url]

HttpPrefix == <<"h", "t", "t", "p", ":", "/", "/">>

HttpsPrefix == <<"h", "t", "t", "p", "s", ":", "/", "/">>

\* The cache key Cache::get gives a resource.
CacheKeyOf(resource) ==
    IF starts_with(resource, HttpPrefix) \/ starts_with(resource, HttpsPrefix)
    THEN UrlKey(resource)
    ELSE PathKey(JoinBase(resource))

\* ureq::get(url).call(): the body, status 404 for a URL that does not exist,
\* another failure for one that cannot be fetched.
http_get(nw, url) ==
    IF url \notin DOMAIN nw THEN Err("Status404", url)
    ELSE IF nw[url].kind = "unreadable" THEN Err("Http", url)
    ELSE Ok(nw[url].contents)

\* Cache::get on a miss, after the read of the file or the request of the URL.
CacheMiss(cache_key, contents, entries, not_found) ==
    IF contents.ok
    THEN [result |-> Ok(contents.value),
          cache |-> Insert(entries, cache_key, contents.value),
          fetched |-> <<cache_key>>]
    ELSE IF contents.kind \in {"NotFound", "Status404"}
    THEN [result |-> not_found, cache |-> entries, fetched |-> <<>>]
    ELSE [result |-> Err(contents.kind, cache_key.name), cache |-> entries, fetched |-> <<>>]

CacheLookUpAlwaysReads(cache_key, fs, nw, entries, not_found) ==
    CacheMiss(cache_key,
              IF cache_key.kind = "Path"
              THEN read_to_string(fs, cache_key.name)
              ELSE http_get(nw, cache_key.name),
              entries, not_found)

\* Cache::get for the key of the resource.
CacheLookUp(cache_key, fs, nw, entries, not_found) ==
    IF cache_key \in DOMAIN entries
    THEN [result |-> Ok(entries[cache_key]), cache |-> entries, fetched |-> <<>>]
    ELSE CacheMiss(cache_key,
                   IF cache_key.kind = "Path"
                   THEN read_to_string(fs, cache_key.name)
                   ELSE http_get(nw, cache_key.name),
                   entries, not_found)

\* Cache::get: [result, cache, fetched]; not_found is the error the caller's
\* closure builds, fetched the keys read from the file system or the network.
cache_get(resource, fs, nw, entries, not_found) ==
    CacheLookUp(CacheKeyOf(resource), fs, nw, entries, not_found)

----------------------------------------------------------------------------
(* Glossaries *)

External(reference) == [tag |-> "External", location |-> reference]

Inline(terms) == [tag |-> "Inline", terms |-> terms]

InlineLocation == <<"(", "i", "n", "l", "i", "n", "e", ")">>

\* Glossary::location
location(source) == IF source.tag = "External" THEN source.location ELSE InlineLocation

\* The text of the glossary file gl.
GlossaryFileText == <<"{", "k", ":", "A", "}">>

\* What the text of gl deserializes to.
GlossaryFileTerms == [key \in {<<"k">>} |-> Static(<<"A">>)]

\* ron::from_str::<BTreeMap<String, Term>>: the one text that is a glossary
\* deserializes, every other text is an error.
ron_from_str(text) ==
    IF text = GlossaryFileText THEN Ok(GlossaryFileTerms) ELSE Err("Ron", <<>>)

RECURSIVE MergeAll(_, _)
\* merge_term for every entry of terms.  Entries have distinct keys, so the
\* order in which the map is walked does not matter.
MergeAll(combined, terms) ==
    IF DOMAIN terms = {} THEN combined
    ELSE LET key == CHOOSE k \in DOMAIN terms : TRUE
         IN  MergeAll(merge_term(combined, key, terms[key]),
                      [k \in DOMAIN terms \ {key} |-> terms[k]])

\* load_glossary_terms for an external glossary, after Cache::get.
MergeExternal(glossary_text, combined) ==
    IF ~glossary_text.result.ok
    THEN [result |-> glossary_text.result, combined |-> combined,
          cache |-> glossary_text.cache]
    ELSE IF ~ron_from_str(glossary_text.result.value).ok
    THEN [result |-> ron_from_str(glossary_text.result.value), combined |-> combined,
          cache |-> glossary_text.cache]
    ELSE [result |-> Ok(<<>>),
          combined |-> MergeAll(combined, ron_from_str(glossary_text.result.value).value),
          cache |-> glossary_text.cache]

\* load_glossary_terms: [result, combined, cache]
load_glossary_terms(source, combined, fs, nw, entries) ==
    IF source.tag = "Inline"
    THEN [result |-> Ok(<<>>), combined |-> MergeAll(combined, source.terms),
          cache |-> entries]
    ELSE MergeExternal(cache_get(source.location, fs, nw, entries,
                                 Err("Glossary", [location |-> source.location,
                                                  error |-> "not found"])),
                       combined)

RECURSIVE load_glossaries_into(_, _, _, _, _)

\* load_glossaries_into after the first of its glossaries was loaded: its error
\* is wrapped with the location of the glossary.
LoadRest(sources, first, fs, nw) ==
    IF ~first.result.ok
    THEN [result |-> Err("Glossary", [location |-> location(Head(sources)),
                                      error |-> first.result.kind]),
          combined |-> first.combined,
          cache |-> first.cache]
    ELSE load_glossaries_into(Tail(sources), first.combined, fs, nw, first.cache)

\* load_glossaries_into: [result, combined, cache]
load_glossaries_into(sources, combined, fs, nw, entries) ==
    IF sources = <<>>
    THEN [result |-> Ok(<<>>), combined |-> combined, cache |-> entries]
    ELSE LoadRest(sources, load_glossary_terms(Head(sources), combined, fs, nw, entries),
                  fs, nw)

\* load_glossaries: [result, combined, cache]
load_glossaries(sources, fs, nw, entries) ==
    load_glossaries_into(sources, EmptyMap, fs, nw, entries)

----------------------------------------------------------------------------
(* The Generation Driver: Configuration::generate_with_cache, one action   *)
(* per step of its two loops.  cur holds its locals: the release flag, the *)
(* output file it is writing, whether output_path.exists() held for it,    *)
(* the index of the next section and the glossary of that file; glossary   *)
(* is the configuration's glossary and snippets the store of this call.    *)

MaxSections == 2

PathM1 == <<"m", "1">>

PathM2 == <<"m", "2">>

PathM3 == <<"m", "3">>

PathGl == <<"g", "l">>

UrlX == HttpPrefix \o <<"x">>

OutR == <<"R">>

OutO == <<"O">>

\* m1: a glossary token and a snippet token.
TextM1 == <<"$", "k", "$", " ", "$">> \o Ref(PathF, <<"z">>) \o <<"$", "\n">>

\* m2: a rust block with a hidden line, and no $.
TextM2 ==
    RustFence \o <<"\n", "#", " ", "h", "\n", "v", "\n">>
        \o <<Backquote, Backquote, Backquote, "\n">>

\* m3: plain text without a final newline.
TextM3 == <<"p">>

TextUrlX == <<"r", "\n">>

TextOld == <<"o", "l", "d">>

GenSources ==
    [p \in {PathM1, PathM2, PathM3, PathF, PathGl} |->
        IF p = PathM1 THEN File(TextM1)
        ELSE IF p = PathM2 THEN File(TextM2)
        ELSE IF p = PathM3 THEN File(TextM3)
        ELSE IF p = PathF THEN FileF
        ELSE File(GlossaryFileText)]

\* The disks this machine starts on: the sources, with or without an output
\* file R left by an earlier run.
GenDisks == {GenSources, Insert(GenSources, OutR, File(TextOld))}

GenNet == [u \in {UrlX} |-> File(TextUrlX)]

SectionRefs == {PathM1, PathM2, PathM3, Ref(PathF, <<"x">>), PathH, UrlX}

ConfigGlossary ==
    Inline([key \in {<<"k">>} |->
               Conditional(Some(<<"D">>), Some(<<"R">>), Some(<<"X">>))])

FileGlossary == Inline([key \in {<<"k">>} |-> Conditional(None, Some(<<"B">>), None)])

ConfigGlossaries ==
    {<<>>, <<ConfigGlossary>>, <<External(PathGl), ConfigGlossary>>, <<External(PathH)>>}

FileSpec(for_docs, sections, glossaries) ==
    [for_docs |-> for_docs, sections |-> sections, glossaries |-> glossaries]

\* The configurations: the output file R with up to MaxSections sections, alone
\* or with a second output file O made of m1.
Configurations ==
    {[files |-> files, glossaries |-> sources] :
        files \in
            {[n \in {OutR} |-> r] :
                r \in {FileSpec(d, sections, g) :
                          d \in BOOLEAN,
                          sections \in ListsUpTo(SectionRefs, MaxSections),
                          g \in {<<>>, <<FileGlossary>>}}}
            \cup
            {[n \in {OutR, OutO} |-> IF n = OutR THEN r ELSE FileSpec(FALSE, <<PathM1>>, <<>>)] :
                r \in {FileSpec(d, sections, g) :
                          d \in BOOLEAN,
                          sections \in ListsUpTo(SectionRefs, MaxSections),
                          g \in {<<>>, <<FileGlossary>>}}},
        sources \in ConfigGlossaries}

InitGen ==
    /\ op = "init"
    /\ args = <<>>
    /\ result = <<>>
    /\ glossary = EmptyMap
    /\ snippets = EmptyMap
    /\ cache = EmptyMap
    /\ reads = EmptyMap
    /\ disk \in GenDisks
    /\ net = GenNet
    /\ config \in Configurations
    /\ pc = "idle"
    /\ todo = {}
    /\ cur = <<>>

\* generate_with_cache up to its loop over the files: a fresh store, and the
\* configuration's glossaries loaded.
StartGenerate ==
    /\ pc = "idle"
    /\ \E release \in BOOLEAN :
        \E loaded \in {load_glossaries(config.glossaries, disk, net, cache)} :
            /\ op' = "generate_with_cache"
            /\ args' = [release |-> release]
            /\ snippets' = EmptyMap
            /\ cache' = loaded.cache
            /\ cur' = [release |-> release]
            /\ IF loaded.result.ok
               THEN /\ glossary' = loaded.combined
                    /\ todo' = DOMAIN config.files
                    /\ pc' = "files"
                    /\ result' = <<>>
               ELSE /\ pc' = "failed"
                    /\ result' = loaded.result
                    /\ UNCHANGED <<glossary, todo>>
            /\ UNCHANGED <<reads, disk, net, config>>

\* The disk without the file at path: remove_file if it exists.
Removed(fs, path) == [p \in DOMAIN fs \ {path} |-> fs[p]]

\* The glossary of a file: the configuration's, with the file's glossaries
\* merged onto a copy of it if it has any.
FileGlossaries(file, fs) ==
    IF file.glossaries = <<>>
    THEN [result |-> Ok(<<>>), combined |-> glossary, cache |-> cache]
    ELSE load_glossaries_into(file.glossaries, glossary, fs, net, cache)

\* The head of the loop body for one file, which the HashMap yields in any
\* order: the old output file removed, the file's glossaries merged onto the
\* configuration's, the output file created.
OpenFile ==
    /\ pc = "files"
    /\ \E name \in todo :
        \E loaded \in {FileGlossaries(config.files[name], Removed(disk, name))} :
            /\ op' = "open_file"
            /\ args' = [name |-> name]
            /\ cache' = loaded.cache
            /\ IF loaded.result.ok
               THEN /\ disk' = Insert(Removed(disk, name), name, File(<<>>))
                    /\ cur' = [release |-> cur.release, name |-> name, index |-> 0,
                               combined |-> loaded.combined,
                               existed |-> name \in DOMAIN disk]
                    /\ todo' = todo \ {name}
                    /\ pc' = "sections"
                    /\ result' = <<>>
               ELSE /\ disk' = Removed(disk, name)
                    /\ pc' = "failed"
                    /\ result' = loaded.result
                    /\ UNCHANGED <<cur, todo>>
            /\ UNCHANGED <<glossary, snippets, reads, net, config>>

SeparatorAlways(index) == <<"\n">>

\* What is written before the section of the given index.
Separator(index) == IF index > 0 THEN <<"\n">> ELSE <<>>

WriteAllAtStart(fs, path, bytes) == [fs EXCEPT ![path] = File(bytes \o fs[path].contents)]

\* output.write_all: the disk with the bytes added to the file at path.
WriteAll(fs, path, bytes) == [fs EXCEPT ![path] = File(fs[path].contents \o bytes)]

\* The context the sections of the current file are rendered in.
CurrentContext == Context(config.files[cur.name].for_docs, cur.release)

\* The section the loop over the sections comes to next.
NextSection == config.files[cur.name].sections[cur.index + 1]

\* The disk after the separator before the next section was written.
Separated == WriteAll(disk, cur.name, Separator(cur.index))

\* The body of the loop over the sections, for the next section of the file:
\* the separator, the section's text from the cache, process_markdown, and the
\* result written.
Section ==
    /\ pc = "sections"
    /\ cur.index < Len(config.files[cur.name].sections)
    /\ \E markdown \in {cache_get(NextSection, Separated, net, cache,
                                  Err("SnippetNotFound", NextSection))} :
           /\ op' = "section"
           /\ args' = [name |-> cur.name, section |-> NextSection]
           /\ cache' = markdown.cache
           /\ IF ~markdown.result.ok
              THEN /\ disk' = Separated
                   /\ pc' = "failed"
                   /\ result' = markdown.result
                   /\ UNCHANGED <<snippets, cur>>
              ELSE \E processed \in
                       {process_markdown(markdown.result.value, Separated,
                                         [snippets |-> snippets, read |-> <<>>],
                                         cur.combined, CurrentContext)} :
                       /\ snippets' = processed.snippets
                       /\ IF ~processed.result.ok
                          THEN /\ disk' = Separated
                               /\ pc' = IF processed.result = Panic THEN "panicked"
                                        ELSE "failed"
                               /\ result' = processed.result
                               /\ UNCHANGED cur
                          ELSE /\ disk' = WriteAll(Separated, cur.name, processed.result.value)
                               /\ pc' = "sections"
                               /\ result' = <<>>
                               /\ cur' = [cur EXCEPT !.index = cur.index + 1]
    /\ UNCHANGED <<glossary, reads, net, config, todo>>

\* The end of the loop over the sections of a file.
CloseFile ==
    /\ pc = "sections"
    /\ cur.index = Len(config.files[cur.name].sections)
    /\ op' = "close_file"
    /\ args' = [name |-> cur.name]
    /\ pc' = "files"
    /\ UNCHANGED <<result, glossary, snippets, cache, reads, disk, net, config, todo, cur>>

\* The end of the loop over the files: Ok(()).
Finish ==
    /\ pc = "files"
    /\ todo = {}
    /\ op' = "finish"
    /\ args' = <<>>
    /\ result' = Ok(<<>>)
    /\ pc' = "done"
    /\ UNCHANGED <<glossary, snippets, cache, reads, disk, net, config, todo, cur>>

NextGen == StartGenerate \/ OpenFile \/ Section \/ CloseFile \/ Finish

SpecGen == InitGen /\ [][NextGen]_vars

\* The text of a section reference as the file system or the network has it.
RawText(section) ==
    IF CacheKeyOf(section).kind = "Url" THEN net[section].contents ELSE disk[section].contents

\* The glossary of an output file: the configuration's glossaries, then the
\* file's, merged in that order.
TermsOf(name) ==
    load_glossaries_into(config.glossaries \o config.files[name].glossaries, EmptyMap,
                         disk, net, EmptyMap).combined

\* The i-th section of an output file, resolved and rewritten on its own.
ProcessedSection(name, i) ==
    process_markdown(RawText(config.files[name].sections[i]), disk,
                     [snippets |-> EmptyMap, read |-> <<>>], TermsOf(name),
                     Context(config.files[name].for_docs, cur.release)).result.value

TextM2Rewritten ==
    RustFence \o <<"\n", "v", "\n">> \o <<Backquote, Backquote, Backquote, "\n">>

\* C4 as stated, for the section reference f:x, where f is a file next to the
\* configuration that defines the region x: the section's text is the text of
\* the snippet x.
C4_SnippetSectionContributesSnippet ==
    (/\ op = "section"
     /\ args.section = Ref(PathF, <<"x">>)
     /\ config.files[args.name].sections[1] = args.section
     /\ cur.index <= 1)
        => /\ pc = "sections"
           /\ disk[args.name] = File(TextFX)

\* What the code does with such a section: Cache::get reads the file whose name
\* is the whole reference, colon and name included, and reports it missing.
SnippetSectionAsTheCodeReadsIt ==
    (op = "section" /\ args.section = Ref(PathF, <<"x">>))
        => /\ pc = "failed"
           /\ result = Err("SnippetNotFound", args.section)

\* C5: after a successful generate_with_cache each output file holds exactly
\* its sections' resolved and rewritten texts in their declared order, a single
\* newline between consecutive sections, none before the first or after the
\* last, and nothing of what the file held before.
C5_OutputIsSectionsInOrder ==
    pc = "done" =>
        \A name \in DOMAIN config.files :
            LET sections == config.files[name].sections
            IN  /\ name \in DOMAIN disk
                /\ disk[name] =
                       File(join([i \in 1..Len(sections) |-> ProcessedSection(name, i)],
                                 <<"\n">>))
                /\ sections = <<PathM3, PathM2>> =>
                       disk[name] = File(TextM3 \o <<"\n">> \o TextM2Rewritten)

\* R, which an earlier run left behind, now holds m1 and m2, resolved and
\* rewritten.
C5_Witness ==
    /\ pc = "done"
    /\ cur.name = OutR
    /\ cur.existed
    /\ config.files[OutR].sections = <<PathM1, PathM2>>
    /\ disk[OutR] = File(<<"X", " ">> \o TextFZ \o <<"\n", "\n">> \o TextM2Rewritten)

\* The raw texts of the sections of an output file.
RawSections(name) ==
    [i \in 1..Len(config.files[name].sections) |-> RawText(config.files[name].sections[i])]

\* No section of the output file holds a $.
NoTokens(name) ==
    \A i \in 1..Len(config.files[name].sections) : ~contains(RawSections(name)[i], <<"$">>)

\* No section of the output file opens a rust block.
NoRustBlocks(name) ==
    \A i \in 1..Len(config.files[name].sections) : ~contains(RawSections(name)[i], RustFence)

----------------------------------------------------------------------------
(* SpecCache: Cache::get calls on one cache, while the files and the URLs   *)
(* behind it change.                                                        *)

UrlS == HttpsPrefix \o <<"s">>

\* The resources asked for: a local path, an http URL and an https URL.
CacheResources == {PathM3, UrlX, UrlS}

\* What a path or a URL can hold: a text, or an entry that fails to be read.
CacheEntries == {File(TextM3), File(TextOld), Unreadable}

InitCache ==
    /\ op = "init"
    /\ args = <<>>
    /\ result = <<>>
    /\ glossary = EmptyMap
    /\ snippets = EmptyMap
    /\ cache = EmptyMap
    /\ reads = EmptyMap
    /\ disk = [p \in {PathM3} |-> File(TextM3)]
    /\ net = [u \in {UrlX} |-> File(TextOld)]
    /\ config = <<>>
    /\ pc = "idle"
    /\ todo = {}
    /\ cur = <<>>

\* One call of Cache::get; reads counts the successful reads of each key.
CacheGetCall ==
    /\ pc = "idle"
    /\ \E resource \in CacheResources :
        \E out \in {cache_get(resource, disk, net, cache, Err("SnippetNotFound", resource))} :
            /\ \A k \in DOMAIN CountReads(reads, out.fetched) :
                   CountReads(reads, out.fetched)[k] <= MaxReads
            /\ op' = "cache_get"
            /\ args' = [resource |-> resource, cache |-> cache]
            /\ result' = out.result
            /\ cache' = out.cache
            /\ reads' = CountReads(reads, out.fetched)
    /\ UNCHANGED <<glossary, snippets, disk, net, config, pc, todo, cur>>

\* The environment writes, replaces or removes a local file.
ChangeFile ==
    /\ pc = "idle"
    /\ \E changed \in {Removed(disk, PathM3)}
                      \cup {Insert(disk, PathM3, e) : e \in CacheEntries} :
        /\ changed # disk
        /\ disk' = changed
    /\ op' = "change"
    /\ args' = <<>>
    /\ result' = <<>>
    /\ UNCHANGED <<glossary, snippets, cache, reads, net, config, pc, todo, cur>>

\* The environment changes what a URL serves.
ChangeUrl ==
    /\ pc = "idle"
    /\ \E url \in {UrlX, UrlS} :
        \E changed \in {Removed(net, url)} \cup {Insert(net, url, e) : e \in CacheEntries} :
            /\ changed # net
            /\ net' = changed
    /\ op' = "change"
    /\ args' = <<>>
    /\ result' = <<>>
    /\ UNCHANGED <<glossary, snippets, cache, reads, disk, config, pc, todo, cur>>

NextCache == CacheGetCall \/ ChangeFile \/ ChangeUrl

SpecCache == InitCache /\ [][NextCache]_vars

\* What the file system or the network holds for a key: Ok(the text) or an
\* error.
Behind(cache_key) ==
    IF cache_key.kind = "Path"
    THEN read_to_string(disk, cache_key.name)
    ELSE http_get(net, cache_key.name)

\* No key was read successfully more than once.
ReadAtMostOnce == \A k \in DOMAIN reads : reads[k] <= 1

\* No step changes or removes an entry of the cache.
EntriesKept == \A k \in DOMAIN cache : k \in DOMAIN cache' /\ cache'[k] = cache[k]

\* A get of a cached key returns the entry and reads nothing; a get that
\* succeeds on a miss returns and inserts the text now behind the key; a get
\* that fails leaves the cache as it was.
GetStep ==
    op' = "cache_get" =>
        LET key == CacheKeyOf(args'.resource)
        IN  /\ key \in DOMAIN cache => (result' = Ok(cache[key]) /\ reads' = reads)
            /\ (key \notin DOMAIN cache /\ result'.ok)
                   => /\ Behind(key) = result'
                      /\ cache' = Insert(cache, key, result'.value)
                      /\ ReadCount(reads', key) = ReadCount(reads, key) + 1
            /\ ~result'.ok => (cache' = cache /\ reads' = reads)

\* C13: on one cache, a key is read successfully from the file system or the
\* network at most once; an entry never changes and is never removed, so a
\* later get of its key returns the text of the first successful read even
\* when the file or URL has changed; a get that fails inserts nothing and
\* leaves the cache unchanged.
C13_CacheGet == []ReadAtMostOnce /\ [][EntriesKept /\ GetStep]_vars

\* A get answered from the cache with the text first read, the file having
\* changed since.
C13_Witness ==
    /\ op = "cache_get"
    /\ args.resource = PathM3
    /\ PathKey(PathM3) \in DOMAIN args.cache
    /\ result = Ok(TextM3)
    /\ PathM3 \in DOMAIN disk
    /\ disk[PathM3] = File(TextOld)
    /\ ReadCount(reads, PathKey(PathM3)) = 1

----------------------------------------------------------------------------
(* SpecBlocks: preprocess_rust_codeblocks applied to markdown texts built   *)
(* from a few kinds of line.                                                *)

MaxBlockLines == 4

\* Three backquotes.
Fence == <<Backquote, Backquote, Backquote>>

\* The lines the texts are built from, without their newline: the rust fence,
\* the rust fence with an attribute and indented, a bare fence at the margin
\* and indented, a fence tagged with another language, hidden lines at the
\* margin and indented, visible lines, and a line that holds the rust marker
\* after other text.
BlockLineKinds ==
    { RustFence,
      <<" ">> \o RustFence \o <<",", "x">>,
      Fence,
      <<" ">> \o Fence,
      Fence \o <<"c">>,
      <<"#", " ", "h">>,
      <<" ", "#", " ", "h">>,
      <<"v">>,
      <<"#", "v">>,
      <<"a">> \o RustFence }

\* The texts of at most MaxBlockLines lines, each line ended by its newline.
BlockTexts ==
    {Concat([i \in 1..Len(ls) |-> ls[i] \o <<"\n">>]) :
        ls \in ListsUpTo(BlockLineKinds, MaxBlockLines)}

\* The texts, and the same texts without their final newline.
BlockMarkdowns == BlockTexts \cup {SliceTo(t, Len(t) - 1) : t \in BlockTexts \ {<<>>}}

InitBlocks == InitTerm

\* One call of preprocess_rust_codeblocks.
PreprocessCall ==
    /\ pc = "idle"
    /\ \E markdown \in BlockMarkdowns :
        /\ op' = "preprocess_rust_codeblocks"
        /\ args' = [markdown |-> markdown]
        /\ result' = preprocess_rust_codeblocks(markdown)
        /\ pc' = "returned"
        /\ UNCHANGED <<glossary, snippets, cache, reads, disk, net, config, todo, cur>>

NextBlocks == PreprocessCall

SpecBlocks == InitBlocks /\ [][NextBlocks]_vars

(* The rewrite as C11 describes it, line by line. *)

\* The lines of a text, each with the newline that ends it.
RECURSIVE LinesWithEnds(_)
LinesWithEnds(text) ==
    IF text = <<>> THEN <<>>
    ELSE LET at == find(text, <<"\n">>)
         IN  IF IsSome(at)
             THEN <<SliceTo(text, Unwrap(at) + 1)>>
                  \o LinesWithEnds(SliceFrom(text, Unwrap(at) + 1))
             ELSE <<text>>

\* A fence line: its left-trimmed content starts with three backquotes.
IsFenceLine(line) == starts_with(trim_start(line), Fence)

\* An opening fence followed by the rust tag.
IsRustFenceLine(line) == starts_with(trim_start(line), RustFence)

\* A hidden line: its left-trimmed content starts with "# ".
IsHiddenLine(line) == starts_with(trim_start(line), <<"#", " ">>)

\* The lines kept from the i-th on, where mode says whether line i lies
\* outside every fenced block ("text"), in a rust block ("rust") or in a
\* fenced block with another or no tag ("other").
RECURSIVE KeptLines(_, _, _)
KeptLines(all_lines, i, mode) ==
    IF i > Len(all_lines) THEN <<>>
    ELSE LET line == all_lines[i]
         IN  CASE mode = "text" ->
                    line \o KeptLines(all_lines, i + 1,
                                      IF IsRustFenceLine(line) THEN "rust"
                                      ELSE IF IsFenceLine(line) THEN "other"
                                      ELSE "text")
               [] mode = "rust" ->
                    IF IsFenceLine(line) THEN line \o KeptLines(all_lines, i + 1, "text")
                    ELSE IF IsHiddenLine(line) THEN KeptLines(all_lines, i + 1, "rust")
                    ELSE line \o KeptLines(all_lines, i + 1, "rust")
               [] mode = "other" ->
                    line \o KeptLines(all_lines, i + 1,
                                      IF IsFenceLine(line) THEN "text" ELSE "other")

\* The text C11 says preprocess_rust_codeblocks returns.
RewrittenByBlocks(markdown) == KeptLines(LinesWithEnds(markdown), 1, "text")

\* A text block that holds the rust marker and a hidden line.
TextBlockWithRustMarker ==
    Fence \o <<"c", "\n">> \o RustFence \o <<"\n", "#", " ", "h", "\n">> \o Fence \o <<"\n">>

\* C11: whenever preprocess_rust_codeblocks returns a text, that text is the
\* input with the hidden lines of its rust-tagged fenced blocks dropped and
\* everything else, the fenced blocks with another or no tag included, kept
\* verbatim and in order.
C11_OnlyRustBlocksRewritten ==
    (op = "preprocess_rust_codeblocks" /\ result.ok)
        => result.value = RewrittenByBlocks(args.markdown)

(* The rewrite as the code does it: a rust block opens wherever the marker *)
(* of three backquotes and "rust" stands, at the start of a line or not,   *)
(* inside another fenced block or not.                                     *)

\* The index of the first fence line from the i-th line on, or 0.
FirstFenceFrom(block_lines, i) ==
    LET hits == {j \in i..Len(block_lines) : IsFenceLine(block_lines[j])}
    IN  IF hits = {} THEN 0 ELSE CHOOSE j \in hits : \A k \in hits : j <= k

\* The lines i..j of block_lines that are not hidden, one after the other.
RECURSIVE VisibleLines(_, _, _)
VisibleLines(block_lines, i, j) ==
    IF i > j THEN <<>>
    ELSE (IF IsHiddenLine(block_lines[i]) THEN <<>> ELSE block_lines[i])
         \o VisibleLines(block_lines, i + 1, j)

RECURSIVE RewrittenByMarker(_)
\* Ok(the text), or the error for a marker with no fence line after its line.
RewrittenByMarker(markdown) ==
    LET at == find(markdown, RustFence)
    IN  IF ~IsSome(at) THEN Ok(markdown)
        ELSE LET block_lines == LinesWithEnds(SliceFrom(markdown, Unwrap(at)))
                 close == FirstFenceFrom(block_lines, 2)
                 after == RewrittenByMarker(
                              Concat(SubSeq(block_lines, close + 1, Len(block_lines))))
             IN  IF close = 0 THEN Err("MalformedCodeBlock", <<>>)
                 ELSE IF ~after.ok THEN after
                 ELSE Ok(SliceTo(markdown, Unwrap(at)) \o block_lines[1]
                         \o VisibleLines(block_lines, 2, close - 1)
                         \o block_lines[close] \o after.value)

\* What preprocess_rust_codeblocks returns for every text.
RewriteAsTheCodeDoesIt ==
    op = "preprocess_rust_codeblocks" => result = RewrittenByMarker(args.markdown)

\* A rust marker stands only at the start of a line outside every fenced
\* block, so the blocks of the text are the blocks the code sees.
RECURSIVE MarkersOpenBlocks(_, _, _)
MarkersOpenBlocks(all_lines, i, mode) ==
    IF i > Len(all_lines) THEN TRUE
    ELSE LET line == all_lines[i]
         IN  CASE mode = "text" ->
                    /\ contains(line, RustFence) => IsRustFenceLine(line)
                    /\ MarkersOpenBlocks(all_lines, i + 1,
                                         IF IsRustFenceLine(line) THEN "rust"
                                         ELSE IF IsFenceLine(line) THEN "other"
                                         ELSE "text")
               [] mode = "rust" ->
                    MarkersOpenBlocks(all_lines, i + 1,
                                      IF IsFenceLine(line) THEN "text" ELSE "rust")
               [] mode = "other" ->
                    /\ ~contains(line, RustFence)
                    /\ MarkersOpenBlocks(all_lines, i + 1,
                                         IF IsFenceLine(line) THEN "text" ELSE "other")

\* Where the markers open the blocks, the code rewrites as C11 says.
RewriteWhereMarkersOpenBlocks ==
    (op = "preprocess_rust_codeblocks" /\ result.ok
     /\ MarkersOpenBlocks(LinesWithEnds(args.markdown), 1, "text"))
        => result.value = RewrittenByBlocks(args.markdown)

\* The text block with the rust marker loses its hidden line.
TextBlockLosesHiddenLine ==
    (op = "preprocess_rust_codeblocks" /\ args.markdown = TextBlockWithRustMarker)
        => result = Ok(Fence \o <<"c", "\n">> \o RustFence \o <<"\n">> \o Fence \o <<"\n">>)

====
